---- MODULE Spec2Model ----
(***************************************************************************)
(* se-electionbot: the rescrape scheduler (src/src/bot/rescraper.js), the  *)
(* phase announcement scheduler (ScheduledAnnouncement, src/unnamed/       *)
(* part_000) and the shared bot configuration (src/src/config.js).         *)
(*                                                                         *)
(* JavaScript runs one callback at a time: every action below is the code  *)
(* that runs between two awaits of real I/O.  A timer callback (a rescrape *)
(* tick) is identified by the id of the timer that fired it.               *)
(***************************************************************************)
EXTENDS Integers, FiniteSets, Sequences, TLC

\* ------------------------------------------------------------------ bounds
MaxTimers == 3      \* setTimeout calls made in one behaviour
MaxEvents == 2      \* changes of the election page in one behaviour
MaxCalls == 1       \* calls of start, stop, announceCancelled, announceWinners by other callers
MaxJobCalls == 3    \* calls of init<Phase>, cancel<Phase>, initAll, cancelAll in one behaviour
MaxTextLen == 4     \* characters of a text given to the splitting
MaxSendCalls == 2   \* messages the bot is asked to send in one behaviour
MaxStopCalls == 4   \* calls of start() and stop() in a row by the code around the rescraper
MaxNominees == 2    \* nominees of the snapshots given to the diff
MaxMuteSteps == 5   \* commands, messages and passages of time around a mute
MaxUsers == 2       \* chat users given to addAdmin and addIgnoredUser

\* ------------------------------------------------------- program constants
\* config.scrapeIntervalMins is kept in tenths of a minute
IntervalDefault == 20
IntervalNoResults == 2
IntervalEnding == 10
IntervalOver == 50
\* seconds
Throttle == 1
DupWindow == 300
MaxMessageParts == 3

TimerIds == 1..MaxTimers
NoTimer == 0
NoDate == [ph |-> "none", ver |-> 0, future |-> FALSE]

JobPhases == {"nomination", "primary", "election", "ended"}
ActivePhases == {"nomination", "primary", "election"}
\* nomineeSent counts the new-nominee messages whose send has resolved
Kinds == {"nominee", "withdrawn", "primary", "dates", "cancelled", "winners",
          "endingSoon", "nomineeSent"}
WinnerSets == {{}, {1}, {1, 2}}

\* ------------------------------------------------------------------- state
VARIABLES
    page,       \* the election page as the site serves it now
    nEvents,    \* page changes so far
    cur,        \* Election: the current snapshot
    prev,       \* Election.prev: the snapshot before the last scrape, or null
    iv,         \* config.scrapeIntervalMins (tenths of a minute)
    said,       \* config.flags.saidElectionEndingSoon
    announced,  \* config.flags.announcedWinners
    sched,      \* ScheduledAnnouncement._<phase>Schedule (<<>> is null)
    task,       \* ScheduledAnnouncement._<phase>Task: "null", "running", "stopped"
    handle,     \* Rescraper.timeout: the stored timer handle
    timers,     \* timers pending in the event loop
    nT,         \* timers created so far
    ticks,      \* per timer id: where the rescrape() execution it started stands
    res,        \* what the scrape gave that resolved in the last step, if one did
    term,       \* the tick that posted a terminal announcement last (0: none)
    sent,       \* announcements handed to the chat room, per kind
    ret,        \* the call of announceCancelled/announceWinners made in the last step
    nCalls,     \* calls made by other callers so far
    alive,      \* the process is running
    left,       \* room.leave() calls made
    made,       \* cron.schedule calls made, per phase
    job,        \* the last call of init<Phase>/cancel<Phase>/initAll/cancelAll
    msg,        \* the message being delivered: text, parts, sends, result
    bk,         \* config.lastMessageTime, lastActivityTime, lastBotMessage
    now         \* Date.now(), in seconds

\* what the rescraper, the election and the page are made of
rescraperVars == <<page, nEvents, cur, prev, iv, said, announced, handle, timers, nT,
                   ticks, res, term, sent, ret, nCalls, alive, left>>

queueVars == <<msg, bk, now>>

vars == <<page, nEvents, cur, prev, iv, said, announced, sched, task, handle, timers, nT,
          ticks, res, term, sent, ret, nCalls, alive, left, made, job, msg, bk, now>>

\* ---------------------------------------------------------------- election
NomineeIds == {1}
Blank ==
    [phase |-> "none", winners |-> {}, nom |-> [n \in NomineeIds |-> "absent"],
     primary |-> FALSE, dates |-> 0, room |-> 0, valid |-> FALSE]

\* Election.prev before anything was archived (null)
NoPrev == [Blank EXCEPT !.phase = "null"]

\* the canonical order of the phases; cancelled is a side branch
PhaseRank(ph) ==
    CASE ph = "none" -> 0
      [] ph = "nomination" -> 1
      [] ph = "primary" -> 2
      [] ph = "election" -> 3
      [] ph = "ended" -> 4
      [] OTHER -> 5

InitPages ==
    { [phase |-> ph, winners |-> {}, nom |-> [n \in NomineeIds |-> nm],
       primary |-> FALSE, dates |-> 1, room |-> 1, valid |-> TRUE]
      : ph \in {"nomination", "election", "ended"}, nm \in {"absent", "active"} }

\* one change of the page between two reads of it
PageAfter(p) ==
    { [p EXCEPT !.phase = q] :
        q \in {x \in {"nomination", "primary", "election", "ended", "cancelled"} :
                 PhaseRank(p.phase) < 4 /\ PhaseRank(x) > PhaseRank(p.phase)} }
    \cup { [p EXCEPT !.nom[n] = "active"] :
             n \in {x \in NomineeIds : p.phase = "nomination" /\ p.nom[x] = "absent"} }
    \cup { [p EXCEPT !.nom[n] = "withdrawn"] :
             n \in {x \in NomineeIds : p.phase \in ActivePhases /\ p.nom[x] = "active"} }
    \cup { [p EXCEPT !.winners = w] :
             w \in {x \in WinnerSets : p.phase = "ended" /\ x # {} /\ x # p.winners} }
    \cup { [p EXCEPT !.dates = 2] : x \in {y \in {1} : p.dates = 1 /\ p.phase \in ActivePhases} }
    \cup { [p EXCEPT !.primary = TRUE] : x \in {y \in {1} : ~p.primary /\ p.phase = "nomination"} }
    \cup { [p EXCEPT !.room = 2] : x \in {y \in {1} : p.room = 1} }

\* Election.scrapeElection: on success the current snapshot is archived into
\* prev (null while nothing was scraped yet) and replaced by the page read;
\* on failure nothing changes
ScrapeElectionArchivesAlways(e, pg, ok, valid) ==
    [cur |-> IF ok THEN [pg EXCEPT !.valid = valid] ELSE e.cur,
     prev |-> IF e.cur = Blank THEN NoPrev ELSE e.cur,
     rescraped |-> ok]

ScrapeElection(e, pg, ok, valid) ==
    IF ok
    THEN [cur |-> [pg EXCEPT !.valid = valid],
          prev |-> IF e.cur = Blank THEN NoPrev ELSE e.cur,
          rescraped |-> TRUE]
    ELSE [cur |-> e.cur, prev |-> e.prev, rescraped |-> FALSE]

Validate(c) == c.valid

\* nom maps a nominee id to "absent", "active" or "withdrawn"
NewNomineesIncludingWithdrawn(c, p) ==
    {n \in DOMAIN c.nom : c.nom[n] # "absent" /\ (p = NoPrev \/ p.nom[n] = "absent")}

NewNominees(c, p) ==
    {n \in DOMAIN c.nom : c.nom[n] = "active" /\ (p = NoPrev \/ p.nom[n] # "active")}
NewlyWithdrawnNominees(c, p) ==
    {n \in DOMAIN c.nom : c.nom[n] = "withdrawn" /\ p # NoPrev /\ p.nom[n] = "active"}
\* the winners are new when there are some and their number is not the number
\* of the previous snapshot (none, while there is no previous snapshot)
HasNewWinners(c, p) ==
    Cardinality(p.winners) # Cardinality(c.winners) /\ Cardinality(c.winners) > 0
ElectionDatesChanged(c, p) ==
    p # NoPrev /\ (c.dates # p.dates \/ c.primary # p.primary)
ElectionChatRoomChanged(c, p) == p # NoPrev /\ c.room # p.room

IsNewPhaseContiguous(c, p) == p = NoPrev \/ PhaseRank(c.phase) = PhaseRank(p.phase) + 1

IsNewPhase(c, p) == p = NoPrev \/ c.phase # p.phase
IsActive(c) == c.phase \in ActivePhases
IsEnded(c) == c.phase = "ended"
IsInactive(c) == c.phase \in {"ended", "cancelled"}
\* isEnding: the clock is within the lookahead window of dateEnded
IsEnding(c, inWindow) == c.phase = "election" /\ inWindow
\* isExtensionEligible: too few candidates shortly before dateElection
IsExtensionEligible(c, inWindow) == c.phase = "nomination" /\ inWindow
\* the cancellation text is scraped from a cancelled page only
CancelledText(c) == c.phase = "cancelled"

\* the four dates of a snapshot; a date lies in the future while its phase
\* has not begun
DateOf(c, ph) ==
    IF c.dates = 0 \/ (ph = "primary" /\ ~c.primary) THEN NoDate
    ELSE [ph |-> ph, ver |-> c.dates, future |-> PhaseRank(c.phase) < PhaseRank(ph)]

\* ------------------------------------------------- ScheduledAnnouncement
\* The operators below take and return the record m of everything the
\* synchronous code of one callback can change:
\*   iv, said, sched, task, made, handle, timers, nT, term, sent, ret, alive, left
\* and pc, the await at which the running rescrape() execution stops, and rv,
\* what the last init<Phase> returned ("false" or "undefined").
NoSched == <<>>

\* the cron expression `0 H D M *`: made of the date alone
CronExpr(date) == <<0, date.ver, date.ph>>

HasPrimary(m) == m.sched["primary"] = NoSched

\* isTaskInitialized(type): the job of that phase is running
IsTaskInitialized(m, ph) == m.task[ph] = "running"

\* past the guard of init<Phase>: cron.schedule is called when the date is
\* later than now (an absent date makes an invalid Date, which is not); the
\* function ends without a return statement
ArmJob(m, ph, date) ==
    IF date # NoDate /\ date.future
    THEN [m EXCEPT !.task[ph] = "running", !.sched[ph] = CronExpr(date),
                   !.made[ph] = @ + 1, !.rv = "undefined"]
    ELSE [m EXCEPT !.rv = "undefined"]

InitElectionEnd(m, date) ==
    IF m.sched["ended"] # NoSched \/ m.task["ended"] # "null"
    THEN [m EXCEPT !.rv = "false"]
    ELSE ArmJob(m, "ended", date)

InitElectionStart(m, date) ==
    IF m.sched["election"] # NoSched \/ m.task["election"] # "null" \/ date = NoDate
    THEN [m EXCEPT !.rv = "false"]
    ELSE ArmJob(m, "election", date)

InitPrimary(m, date) ==
    IF m.sched["primary"] # NoSched \/ m.task["primary"] # "null" \/ date = NoDate
    THEN [m EXCEPT !.rv = "false"]
    ELSE ArmJob(m, "primary", date)

InitNominationUnguarded(m, date) == ArmJob(m, "nomination", date)

InitNomination(m, date) ==
    IF m.sched["nomination"] # NoSched \/ m.task["nomination"] # "null" \/ date = NoDate
    THEN [m EXCEPT !.rv = "false"]
    ELSE ArmJob(m, "nomination", date)

InitAll(m, c) ==
    InitElectionEnd(
        InitElectionStart(
            InitPrimary(
                InitNomination(m, DateOf(c, "nomination")),
                DateOf(c, "primary")),
            DateOf(c, "election")),
        DateOf(c, "ended"))

\* cancel<Phase>: the task, when there is one, is stopped (the field keeps
\* the stopped task) and the schedule is cleared
CancelJob(m, ph) ==
    [m EXCEPT !.task[ph] = IF @ = "null" THEN "null" ELSE "stopped",
              !.sched[ph] = NoSched]

CancelAll(m) ==
    CancelJob(CancelJob(CancelJob(CancelJob(m, "ended"), "election"), "primary"),
              "nomination")

StopElectionStart(m) == CancelJob(m, "election")

Reinitialize(m, c) == InitAll(CancelAll(m), c)

\* the announcer as constructed, and after the initAll() of startup
Constructed ==
    [sched |-> [ph \in JobPhases |-> NoSched], task |-> [ph \in JobPhases |-> "null"],
     made |-> [ph \in JobPhases |-> 0], rv |-> "none"]
Startup(c) == InitAll(Constructed, c)

\* init<Phase>(date), by phase
InitJob(m, ph, date) ==
    CASE ph = "nomination" -> InitNomination(m, date)
      [] ph = "primary" -> InitPrimary(m, date)
      [] ph = "election" -> InitElectionStart(m, date)
      [] OTHER -> InitElectionEnd(m, date)

\* what a call on the announcer was and returned; n counts the calls
NoJob == [fn |-> "none", ph |-> "none", date |-> NoDate, rv |-> "none", n |-> 0]

\* ---------------------------------------------------------------- Rescraper
\* start(): a new timer is set and its handle stored
Start(m) ==
    [m EXCEPT !.nT = @ + 1, !.timers = @ \cup {m.nT + 1}, !.handle = m.nT + 1]

\* stop(): this.timeout = clearTimeout(timeout) when a handle is stored
Stop(m) ==
    IF m.handle # NoTimer
    THEN [m EXCEPT !.timers = @ \ {m.handle}, !.handle = NoTimer]
    ELSE m

Post(m, kind, n) == [m EXCEPT !.sent[kind] = @ + n]

JobsOff(m) == \A ph \in JobPhases : m.task[ph] # "running"
TimerOff(m, before) ==
    m.handle = NoTimer /\ (before = NoTimer \/ before \notin m.timers)

NoCall ==
    [fn |-> "none", by |-> 0, present |-> FALSE, phase |-> "none", text |-> FALSE,
     winners |-> 0, acted |-> FALSE, clean |-> FALSE]

\* what a call of announceCancelled/announceWinners was given and did: acted
\* is that it went on to room.sendMessage (it returns true once the send
\* resolves, false otherwise); clean is that, when sendMessage was called, no
\* job was running and the stored timer was cleared
CallRecord(fn, by, present, c, acted, clean) ==
    [fn |-> fn, by |-> by, present |-> present, phase |-> c.phase,
     text |-> CancelledText(c), winners |-> Cardinality(c.winners),
     acted |-> acted, clean |-> clean]

\* announceCancelled(room, election), up to its await of room.sendMessage
CancelledRefuses(present, c) == ~present \/ ~CancelledText(c) \/ c.phase = "cancelled"

AnnounceCancelled(m, by, present, c) ==
    IF CancelledRefuses(present, c)
    THEN [m EXCEPT !.ret = CallRecord("cancelled", by, present, c, FALSE, FALSE)]
    ELSE LET q == Stop(CancelAll(m))
         IN  [Post(q, "cancelled", 1) EXCEPT
                 !.ret = CallRecord("cancelled", by, present, c, TRUE,
                                    JobsOff(q) /\ TimerOff(q, m.handle))]

\* announceWinners(room, election), up to its await of room.sendMessage
WinnersRefuses(present, c) == ~present \/ c.phase # "ended" \/ Cardinality(c.winners) = 0

WinnersQuiesceJobsOnly(m) == CancelAll(m)

WinnersQuiesce(m) == Stop(CancelAll(m))

AnnounceWinners(m, by, present, c) ==
    IF WinnersRefuses(present, c)
    THEN [m EXCEPT !.ret = CallRecord("winners", by, present, c, FALSE, FALSE)]
    ELSE LET q == WinnersQuiesce(m)
         IN  [Post(q, "winners", 1) EXCEPT
                 !.ret = CallRecord("winners", by, present, c, TRUE,
                                    JobsOff(q) /\ TimerOff(q, m.handle))]

\* ------------------------------------------------- rescrape(), between awaits
\* in: what the synchronous code reads from outside the model's state
\*   ending (the clock is in the ending window), idle, busy (config.canIdleGreet,
\*   config.canBusyGreet)
\* (the window and the greetings exist for an election in progress only)
Inputs(c) ==
    [ending : IF c.phase = "election" THEN BOOLEAN ELSE {FALSE},
     idle : IF IsActive(c) THEN BOOLEAN ELSE {FALSE},
     busy : IF IsActive(c) THEN BOOLEAN ELSE {FALSE}]

\* the final this.start() of a tick, and the `return this.start()` of lines 91, 125
FinishTick(m) == [Start(m) EXCEPT !.pc = "done"]

\* line 212
BusyGreet(m, in) ==
    IF in.busy THEN [m EXCEPT !.pc = "busyGreet"] ELSE FinishTick(m)

ShouldSayEndingSoonUngated(m, c, in) == IsEnding(c, in.ending)

ShouldSayEndingSoon(m, c, in) == IsEnding(c, in.ending) /\ ~m.said

ChainNoResultsKeepsInterval(m, c, in) ==
    IF IsEnded(c) /\ Cardinality(c.winners) = 0
        THEN FinishTick(m)
    ELSE IF ShouldSayEndingSoon(m, c, in)
        THEN [m EXCEPT !.said = TRUE, !.iv = IntervalEnding, !.pc = "scaleHobby"]
    ELSE IF IsActive(c)
        THEN IF in.idle THEN [m EXCEPT !.pc = "idleGreet"]
             ELSE BusyGreet(m, in)
    ELSE IF IsInactive(c) /\ m.iv < IntervalOver
        THEN [m EXCEPT !.iv = IntervalOver, !.pc = "afterparty"]
    ELSE FinishTick(m)

\* lines 177-235: the interval / ending soon / greeting / leave chain
Chain(m, c, in) ==
    IF IsEnded(c) /\ Cardinality(c.winners) = 0
        THEN FinishTick([m EXCEPT !.iv = IntervalNoResults])
    ELSE IF ShouldSayEndingSoon(m, c, in)
        THEN [m EXCEPT !.said = TRUE, !.iv = IntervalEnding, !.pc = "scaleHobby"]
    ELSE IF IsActive(c)
        THEN IF in.idle THEN [m EXCEPT !.pc = "idleGreet"]
             ELSE BusyGreet(m, in)
    ELSE IF IsInactive(c) /\ m.iv < IntervalOver
        THEN [m EXCEPT !.iv = IntervalOver, !.pc = "afterparty"]
    ELSE FinishTick(m)

\* lines 171-175
FromWinners(m, t, c, p, in) ==
    IF IsEnded(c) /\ HasNewWinners(c, p)
    THEN LET r == AnnounceWinners(m, t, TRUE, c)
         IN  IF r.ret.acted THEN [r EXCEPT !.pc = "winnersSend", !.term = t]
             ELSE Chain(r, c, in)
    ELSE Chain(m, c, in)

\* lines 162-169
FromCancelled(m, t, c, p, in) ==
    IF c.phase = "cancelled" /\ IsNewPhase(c, p)
    THEN LET r == AnnounceCancelled(m, t, TRUE, c)
         IN  IF r.ret.acted THEN [r EXCEPT !.pc = "cancelSend", !.term = t]
             ELSE [r EXCEPT !.pc = "scaleFreeC"]
    ELSE FromWinners(m, t, c, p, in)

\* lines 155-160
FromDates(m, t, c, p, in) ==
    IF ElectionDatesChanged(c, p)
    THEN [Post(Reinitialize(m, c), "dates", 1) EXCEPT !.pc = "dates"]
    ELSE FromCancelled(m, t, c, p, in)

\* lines 148-153
FromPrimary(m, t, c, p, in) ==
    IF ~HasPrimary(m) /\ c.primary
    THEN [Post(InitPrimary(m, DateOf(c, "primary")), "primary", 1) EXCEPT !.pc = "primary"]
    ELSE FromDates(m, t, c, p, in)

\* lines 142-146
FromWithdrawn(m, t, c, p, in) ==
    IF IsActive(c) /\ NewlyWithdrawnNominees(c, p) # {}
    THEN [Post(m, "withdrawn", 1) EXCEPT !.pc = "withdrawn"]
    ELSE FromPrimary(m, t, c, p, in)

\* lines 136-140: announceNewNominees starts one send per new nominee and
\* resolves without waiting for them
FromNominees(m, t, c, p, in) ==
    IF c.phase = "nomination" /\ NewNominees(c, p) # {}
    THEN FromWithdrawn(Post(m, "nominee", Cardinality(NewNominees(c, p))), t, c, p, in)
    ELSE FromWithdrawn(m, t, c, p, in)

ScrapeRejectedBoth(status, rescraped) == ~status /\ ~rescraped

\* line 89
ScrapeRejected(status, rescraped) == ~status \/ ~rescraped

\* what the scrape gave: it failed, or the state it left is invalid, or there
\* is nothing to compare it with, or it can be compared
ScrapeOutcome(c, p, rescraped) ==
    IF ~rescraped THEN "failed"
    ELSE IF ~Validate(c) THEN "invalid"
    ELSE IF p = NoPrev THEN "noprev"
    ELSE "ok"

AfterScrapeWithoutPrevCheck(m, t, c, p, rescraped, in) ==
    IF ScrapeRejected(Validate(c), rescraped)
        THEN FinishTick(m)
    ELSE IF ElectionChatRoomChanged(c, p)
        THEN [m EXCEPT !.pc = "restart"]
    ELSE FromNominees(m, t, c, p, in)

AfterScrapeRoomChangeRearms(m, t, c, p, rescraped, in) ==
    IF ScrapeRejected(Validate(c), rescraped)
        THEN FinishTick(m)
    ELSE IF p = NoPrev
        THEN FinishTick(m)
    ELSE IF ElectionChatRoomChanged(c, p)
        THEN FinishTick(m)
    ELSE FromNominees(m, t, c, p, in)

\* lines 87-134, after scrapeElection resolved
AfterScrape(m, t, c, p, rescraped, in) ==
    IF ScrapeRejected(Validate(c), rescraped)
        THEN FinishTick(m)
    ELSE IF p = NoPrev
        THEN FinishTick(m)
    ELSE IF ElectionChatRoomChanged(c, p)
        THEN [m EXCEPT !.pc = "restart"]
    ELSE FromNominees(m, t, c, p, in)

\* lines 68-84, when the timer fires: the election start job follows the
\* extension eligibility (ret keeps what isExtensionEligible gave), then
\* client.getMe() is awaited
BeforeScrape(m, c, ext) ==
    LET a == IF IsTaskInitialized(m, "election") /\ IsExtensionEligible(c, ext)
             THEN StopElectionStart(m) ELSE m
        b == IF ~IsTaskInitialized(a, "election") /\ ~IsExtensionEligible(c, ext)
             THEN InitElectionStart(a, DateOf(c, "election")) ELSE a
    IN  [b EXCEPT !.pc = "getMe",
                  !.ret = [NoCall EXCEPT !.fn = "rescrape", !.present = ext]]

\* lines 236-238: the catch block logs and nothing else
Caught(m) == [m EXCEPT !.pc = "caught"]

\* ------------------------------------------------------------ message queue
\* A text is a sequence of characters.
Newline == "\n"
Seps == {" ", ",", ";"}
Chars == {"a", " ", ",", Newline}

MaxOf(S) == CHOOSE x \in S : \A y \in S : y <= x
Tail2(s, i) == SubSeq(s, i, Len(s))

\* a text without newlines: whole when it fits; else cut at the last space,
\* comma or semicolon that leaves a part within the limit (the separator is
\* dropped), or after max characters when there is none
RECURSIVE SplitLineHardCut(_, _)
SplitLineHardCut(s, max) ==
    IF Len(s) = 0 THEN <<>>
    ELSE IF Len(s) <= max THEN <<s>>
    ELSE <<SubSeq(s, 1, max)>> \o SplitLineHardCut(Tail2(s, max + 1), max)

RECURSIVE SplitLine(_, _)
SplitLine(s, max) ==
    IF Len(s) = 0 THEN <<>>
    ELSE IF Len(s) <= max THEN <<s>>
    ELSE LET at == {i \in 1..(max + 1) : s[i] \in Seps}
         IN  IF at = {}
             THEN <<SubSeq(s, 1, max)>> \o SplitLine(Tail2(s, max + 1), max)
             ELSE LET i == MaxOf(at)
                  IN  (IF i = 1 THEN <<>> ELSE <<SubSeq(s, 1, i - 1)>>)
                      \o SplitLine(Tail2(s, i + 1), max)

HasNewline(s) == \E i \in 1..Len(s) : s[i] = Newline

\* a text with newlines: line by line, each line as above
RECURSIVE SplitLines(_, _)
SplitLines(s, max) ==
    IF ~HasNewline(s) THEN SplitLine(s, max)
    ELSE LET i == CHOOSE k \in 1..Len(s) : s[k] = Newline /\ \A j \in 1..(k - 1) : s[j] # Newline
         IN  SplitLine(SubSeq(s, 1, i - 1), max) \o SplitLines(Tail2(s, i + 1), max)

SplitText(text, max) == SplitLines(text, max)

IsBlank(text) == \A i \in 1..Len(text) : text[i] \in {" ", Newline}

\* the texts of the unit test, character by character
First == <<"f", "i", "r", "s", "t">>
Fifth == <<"f", "i", "f", "t", "h">>
TestMaxLength == 6

Second == <<"s", "e", "c", "o", "n", "d">>
Third == <<"t", "h", "i", "r", "d">>
Fourth == <<"f", "o", "u", "r", "t", "h">>
Sp == <<" ">>

NoText == <<>>
\* msg: pc is the await the delivery stands at ("idle": none, or returned);
\* parts are the parts still to send, n their number at first, cand the
\* content handed to room.sendMessage, sends the contents the room accepted,
\* waits the throttle delays slept, result what the call returned
Idle ==
    [pc |-> "idle", fn |-> "none", text |-> NoText, max |-> 0, priv |-> FALSE,
     parts |-> <<>>, n |-> 0, cand |-> NoText, sends |-> <<>>, waits |-> 0,
     rejected |-> FALSE, result |-> "none", calls |-> 0]

\* config as constructed: lastMessageTime = 0, lastBotMessage = ""
Bookkeeping0 == [lastMessageTime |-> 0, lastActivityTime |-> 0, lastBotMessage |-> NoText]

QueueAtRest == msg = Idle /\ bk = Bookkeeping0 /\ now = 0

\* config.duplicateResponseText, and the apology for N parts
DuplicateResponseText == <<"Please read my previous message...">>
Poem(n) == <<"wrote a poem">> \o [i \in 1..n |-> "*"]

CheckSameResponseAsPrevious(b, newContent, t) ==
    b.lastBotMessage = newContent /\ t - DupWindow < b.lastMessageTime

UpdateLastMessageTime(b, t) == [b EXCEPT !.lastMessageTime = t, !.lastActivityTime = t]

UpdateLastMessage(b, content, t) ==
    [UpdateLastMessageTime(b, t) EXCEPT !.lastBotMessage = content]

RefusesEmptyOnly(text) == Len(text) = 0

\* sendMultipartMessage: an empty or blank text is not sent
Refuses(text) == Len(text) = 0 \/ IsBlank(text)

TooLongIgnoresPrivilege(n, priv) == n > MaxMessageParts

TooLongForPrivileged(n, priv) == n > MaxMessageParts /\ priv

\* more parts than config.maxMessageParts, for a caller without privilege
TooLong(n, priv) == n > MaxMessageParts /\ ~priv

\* a single message: the duplicate check, then room.sendMessage is awaited
SendMessage(m, b, text, t) ==
    [m EXCEPT !.pc = "sending", !.fn = "single", !.text = text,
              !.cand = IF CheckSameResponseAsPrevious(b, text, t)
                       THEN DuplicateResponseText ELSE text]

\* the next part is handed to room.sendMessage
SendNextPart(m) ==
    [m EXCEPT !.pc = "sending", !.cand = Head(m.parts), !.parts = Tail(m.parts)]

\* sendMultipartMessage up to its first await
SendMultipartMessage(m, text, max, priv) ==
    LET c == [m EXCEPT !.fn = "multi", !.text = text, !.max = max, !.priv = priv]
        parts == SplitText(text, max)
    IN  IF Refuses(text) THEN [c EXCEPT !.result = "false"]
        ELSE IF TooLong(Len(parts), priv)
        THEN [c EXCEPT !.n = Len(parts), !.pc = "sendingPoem", !.cand = Poem(Len(parts))]
        ELSE SendNextPart([c EXCEPT !.n = Len(parts), !.parts = parts])

AfterRejectReportsSuccess(m) == [m EXCEPT !.pc = "idle", !.rejected = TRUE, !.result = "true"]

\* the send of a part is rejected: the delivery is over and reports failure
AfterReject(m) == [m EXCEPT !.pc = "idle", !.rejected = TRUE, !.result = "false"]

\* after the delay that follows each part: the next part, or the end of the
\* delivery with lastActivityTime dated (n - 1) delays ahead
AfterThrottle(m, b, t) ==
    IF m.parts = <<>>
    THEN [m |-> [m EXCEPT !.pc = "idle", !.waits = @ + 1, !.result = "true"],
          b |-> [b EXCEPT !.lastActivityTime = t + (m.n - 1) * Throttle]]
    ELSE [m |-> SendNextPart([m EXCEPT !.waits = @ + 1]), b |-> b]

\* ------------------------------------------------------------------ actions
\* the record m for the execution started by timer t
Mach(t) ==
    [iv |-> iv, said |-> said, sched |-> sched, task |-> task, handle |-> handle,
     timers |-> timers, nT |-> nT, term |-> term, sent |-> sent,
     ret |-> NoCall, alive |-> alive, left |-> left, made |-> made, rv |-> "none",
     pc |-> ticks[t]]

\* the record m for code that runs outside of rescrape()
MachExt ==
    [iv |-> iv, said |-> said, sched |-> sched, task |-> task, handle |-> handle,
     timers |-> timers, nT |-> nT, term |-> term, sent |-> sent,
     ret |-> NoCall, alive |-> alive, left |-> left, made |-> made, rv |-> "none",
     pc |-> "ext"]

Shared(m) ==
    /\ m.nT <= MaxTimers
    /\ iv' = m.iv /\ said' = m.said /\ sched' = m.sched /\ task' = m.task
    /\ handle' = m.handle /\ timers' = m.timers /\ nT' = m.nT
    /\ term' = m.term /\ sent' = m.sent /\ ret' = m.ret /\ alive' = m.alive
    /\ left' = m.left /\ made' = m.made
    /\ UNCHANGED <<announced, job, queueVars>>

Apply(m, t) ==
    /\ Shared(m)
    /\ ticks' = [ticks EXCEPT ![t] = m.pc]

ApplyExt(m) == Shared(m) /\ ticks' = ticks

Awaiting(t, pcs) == alive /\ ticks[t] \in pcs

\* the election page changes on the site
PageChanges ==
    /\ alive /\ nEvents < MaxEvents
    /\ page' \in PageAfter(page)
    /\ nEvents' = nEvents + 1
    /\ res' = "none" /\ ret' = NoCall
    /\ UNCHANGED <<cur, prev, iv, said, announced, sched, task, handle, timers, nT,
                   ticks, term, sent, nCalls, alive, left, made, job, queueVars>>

\* another caller (a command, the dashboard) calls rescraper.start()
ExtStart ==
    /\ alive /\ nCalls < MaxCalls
    /\ ApplyExt(Start(MachExt))
    /\ nCalls' = nCalls + 1
    /\ res' = "none"
    /\ UNCHANGED <<page, nEvents, cur, prev>>

\* another caller calls rescraper.stop()
ExtStop ==
    /\ alive /\ nCalls < MaxCalls
    /\ ApplyExt(Stop(MachExt))
    /\ nCalls' = nCalls + 1
    /\ res' = "none"
    /\ UNCHANGED <<page, nEvents, cur, prev>>

\* another caller calls announceCancelled(room, election)
CallAnnounceCancelled ==
    /\ alive /\ nCalls < MaxCalls
    /\ \E present \in BOOLEAN : ApplyExt(AnnounceCancelled(MachExt, 0, present, cur))
    /\ nCalls' = nCalls + 1
    /\ res' = "none"
    /\ UNCHANGED <<page, nEvents, cur, prev>>

\* another caller calls announceWinners(room, election)
CallAnnounceWinners ==
    /\ alive /\ nCalls < MaxCalls
    /\ \E present \in BOOLEAN : ApplyExt(AnnounceWinners(MachExt, 0, present, cur))
    /\ nCalls' = nCalls + 1
    /\ res' = "none"
    /\ UNCHANGED <<page, nEvents, cur, prev>>

\* a pending timer expires: rescrape() runs to its first await
TimerFires(t) ==
    /\ alive /\ t \in timers /\ ticks[t] = "idle"
    /\ \E ext \in (IF cur.phase = "nomination" THEN BOOLEAN ELSE {FALSE}) :
          Apply(BeforeScrape([Mach(t) EXCEPT !.timers = @ \ {t}], cur, ext), t)
    /\ res' = "none"
    /\ UNCHANGED <<page, nEvents, cur, prev, nCalls>>

\* client.getMe() resolves: scrapeElection is called
GetMeResolves(t) ==
    /\ Awaiting(t, {"getMe"})
    /\ Apply([Mach(t) EXCEPT !.pc = "scrape"], t)
    /\ res' = "none"
    /\ UNCHANGED <<page, nEvents, cur, prev, nCalls>>

\* election.scrapeElection(config) resolves, with success or failure
ScrapeResolves(t) ==
    /\ Awaiting(t, {"scrape"})
    /\ \E ok \in BOOLEAN, valid \in BOOLEAN :
          LET e == ScrapeElection([cur |-> cur, prev |-> prev], page, ok, valid)
          IN  /\ \E in \in Inputs(e.cur) :
                    Apply(AfterScrape(Mach(t), t, e.cur, e.prev, e.rescraped, in), t)
              /\ cur' = e.cur
              /\ prev' = e.prev
              /\ res' = ScrapeOutcome(e.cur, e.prev, e.rescraped)
    /\ UNCHANGED <<page, nEvents, nCalls>>

\* heroku.restartApp() resolves: the app is restarted, or process.exit(1)
RestartResolves(t) ==
    /\ Awaiting(t, {"restart"})
    /\ \E ok \in BOOLEAN :
          Apply([Mach(t) EXCEPT !.alive = FALSE,
                                !.pc = IF ok THEN "restarted" ELSE "exited"], t)
    /\ res' = "none"
    /\ UNCHANGED <<page, nEvents, cur, prev, nCalls>>

SendPcs == {"withdrawn", "primary", "dates", "cancelSend", "winnersSend",
            "endingSoon", "idleGreet", "busyGreet"}

AfterSend(m, t, c, p, in) ==
    CASE m.pc = "withdrawn" -> FromPrimary(m, t, c, p, in)
      [] m.pc = "primary" -> FromDates(m, t, c, p, in)
      [] m.pc = "dates" -> FromCancelled(m, t, c, p, in)
      [] m.pc = "cancelSend" -> [m EXCEPT !.pc = "scaleFreeC"]
      [] m.pc = "winnersSend" -> Chain(m, c, in)
      [] m.pc = "idleGreet" -> BusyGreet(m, in)
      [] OTHER -> FinishTick(m)

\* an awaited announcement or greeting resolves
SendResolves(t) ==
    /\ Awaiting(t, SendPcs)
    /\ \E in \in Inputs(cur) : Apply(AfterSend(Mach(t), t, cur, prev, in), t)
    /\ res' = "none"
    /\ UNCHANGED <<page, nEvents, cur, prev, nCalls>>

AfterScale(m, t, c, p, in) ==
    CASE m.pc = "scaleFreeC" -> FromWinners(m, t, c, p, in)
      [] m.pc = "scaleHobby" -> [Post(m, "endingSoon", 1) EXCEPT !.pc = "endingSoon"]
      [] OTHER -> FinishTick(m)

\* heroku.scaleFree() / scaleHobby() resolves
ScaleResolves(t) ==
    /\ Awaiting(t, {"scaleFreeC", "scaleHobby", "scaleFree"})
    /\ \E in \in Inputs(cur) : Apply(AfterScale(Mach(t), t, cur, prev, in), t)
    /\ res' = "none"
    /\ UNCHANGED <<page, nEvents, cur, prev, nCalls>>

\* wait(electionAfterpartyMins) is over: room.leave() is called
AfterpartyEnds(t) ==
    /\ Awaiting(t, {"afterparty"})
    /\ Apply([Mach(t) EXCEPT !.left = @ + 1, !.pc = "leave"], t)
    /\ res' = "none"
    /\ UNCHANGED <<page, nEvents, cur, prev, nCalls>>

\* room.leave() resolves: heroku.scaleFree() is called
LeaveResolves(t) ==
    /\ Awaiting(t, {"leave"})
    /\ Apply([Mach(t) EXCEPT !.pc = "scaleFree"], t)
    /\ res' = "none"
    /\ UNCHANGED <<page, nEvents, cur, prev, nCalls>>

AwaitPcs == {"getMe", "scrape", "restart", "scaleFreeC", "scaleHobby", "scaleFree",
             "leave"} \cup SendPcs

\* the awaited call rejects: the catch block of rescrape() runs
AwaitRejects(t) ==
    /\ Awaiting(t, AwaitPcs)
    /\ Apply(Caught(Mach(t)), t)
    /\ res' = "none"
    /\ UNCHANGED <<page, nEvents, cur, prev, nCalls>>

Init ==
    /\ page \in InitPages
    /\ nEvents = 0
    /\ cur \in {Blank, page}
    /\ prev = NoPrev
    /\ iv = IntervalDefault
    /\ said = FALSE
    /\ announced = FALSE
    /\ sched = Startup(cur).sched
    /\ task = Startup(cur).task
    /\ made = Startup(cur).made
    /\ job = NoJob
    /\ QueueAtRest
    /\ handle = 1
    /\ timers = {1}
    /\ nT = 1
    /\ ticks = [t \in TimerIds |-> "idle"]
    /\ res = "none"
    /\ term = 0
    /\ sent = [k \in Kinds |-> 0]
    /\ ret = NoCall
    /\ nCalls = 0
    /\ alive = TRUE
    /\ left = 0

\* the program as it runs: startup has called start() once, and from then on
\* only rescrape() itself re-arms the timer
Next ==
    \/ PageChanges
    \/ \E t \in TimerIds : TimerFires(t)
    \/ \E t \in TimerIds : GetMeResolves(t)
    \/ \E t \in TimerIds : ScrapeResolves(t)
    \/ \E t \in TimerIds : RestartResolves(t)
    \/ \E t \in TimerIds : SendResolves(t)
    \/ \E t \in TimerIds : ScaleResolves(t)
    \/ \E t \in TimerIds : AfterpartyEnds(t)
    \/ \E t \in TimerIds : LeaveResolves(t)
    \/ \E t \in TimerIds : AwaitRejects(t)

Spec == Init /\ [][Next]_vars

\* a sendMessage started by announceNewNominees resolves
NomineeSendResolves ==
    /\ alive /\ sent["nomineeSent"] < sent["nominee"]
    /\ sent' = [sent EXCEPT !["nomineeSent"] = @ + 1]
    /\ res' = "none" /\ ret' = NoCall
    /\ UNCHANGED <<page, nEvents, cur, prev, iv, said, announced, sched, task, handle,
                   timers, nT, ticks, term, nCalls, alive, left, made, job, queueVars>>

\* the ticks with the sends of announceNewNominees followed to their end
NextOrder ==
    \/ Next
    \/ NomineeSendResolves

SpecOrder == Init /\ [][NextOrder]_vars

\* the ticks of an election that is over and waits for its results, with the
\* timer and the awaited calls taking their turn
InitResults ==
    /\ Init
    /\ page.phase = "ended"
    /\ cur = page

Fairness ==
    \A t \in TimerIds :
        /\ WF_vars(TimerFires(t))
        /\ WF_vars(GetMeResolves(t))
        /\ WF_vars(ScrapeResolves(t))

SpecResults == InitResults /\ [][Next]_vars /\ Fairness

\* what a scrape brought that the diff of a tick would announce
Observed(c, p) ==
    IF c.phase = "nomination" /\ NewNominees(c, p) # {} THEN "nominee"
    ELSE IF IsEnded(c) /\ HasNewWinners(c, p) THEN "winners"
    ELSE "none"

\* the cron job of a phase fires, at the top of the hour of the date of the
\* phase (the phase has not begun or has just begun, no results are out);
\* its callback scrapes the election and announces the phase
JobFires(ph) ==
    /\ alive /\ task[ph] = "running" /\ job.n < MaxCalls
    /\ PhaseRank(page.phase) <= PhaseRank(ph) /\ page.winners = {}
    /\ \E ok \in BOOLEAN :
          LET e == ScrapeElection([cur |-> cur, prev |-> prev], page, ok, TRUE)
          IN  /\ cur' = e.cur
              /\ prev' = e.prev
              /\ job' = [fn |-> "callback", ph |-> ph, date |-> DateOf(cur, ph),
                         rv |-> IF ok THEN Observed(e.cur, e.prev) ELSE "none",
                         n |-> job.n + 1]
    /\ res' = "none" /\ ret' = NoCall
    /\ UNCHANGED <<page, nEvents, iv, said, announced, sched, task, handle, timers, nT,
                   ticks, term, sent, nCalls, alive, left, made, queueVars>>

\* a nomination without nominees yet, scraped at startup
InitJobScrape ==
    /\ Init
    /\ cur = page
    /\ page.phase = "nomination"
    /\ \A n \in NomineeIds : page.nom[n] = "absent"

NextJobScrape ==
    \/ Next
    \/ \E ph \in JobPhases : JobFires(ph)

SpecJobScrape == InitJobScrape /\ [][NextJobScrape]_vars

\* the public methods called by other code as well (commands, the dashboard),
\* at any moment between two callbacks; the page has changed at most once
\* since the startup scrape and stays as it is
PagesSince(p) == {p} \cup PageAfter(p)

InitCallers ==
    /\ cur \in InitPages
    /\ page \in PagesSince(cur)
    /\ nEvents = 0
    /\ prev = NoPrev
    /\ iv = IntervalDefault
    /\ said = FALSE
    /\ announced = FALSE
    /\ sched = Startup(cur).sched
    /\ task = Startup(cur).task
    /\ made = Startup(cur).made
    /\ job = NoJob
    /\ QueueAtRest
    /\ handle = 1
    /\ timers = {1}
    /\ nT = 1
    /\ ticks = [t \in TimerIds |-> "idle"]
    /\ res = "none"
    /\ term = 0
    /\ sent = [k \in Kinds |-> 0]
    /\ ret = NoCall
    /\ nCalls = 0
    /\ alive = TRUE
    /\ left = 0

NextCallers ==
    \/ ExtStart
    \/ ExtStop
    \/ CallAnnounceCancelled
    \/ CallAnnounceWinners
    \/ \E t \in TimerIds : TimerFires(t)
    \/ \E t \in TimerIds : GetMeResolves(t)
    \/ \E t \in TimerIds : ScrapeResolves(t)
    \/ \E t \in TimerIds : RestartResolves(t)
    \/ \E t \in TimerIds : SendResolves(t)
    \/ \E t \in TimerIds : ScaleResolves(t)
    \/ \E t \in TimerIds : AfterpartyEnds(t)
    \/ \E t \in TimerIds : LeaveResolves(t)
    \/ \E t \in TimerIds : AwaitRejects(t)

SpecCallers == InitCallers /\ [][NextCallers]_vars

\* ------------------------------------------- the announcer called directly
\* the dates a caller may pass for a phase: absent, or a date of that phase,
\* later than now or not
JobDates(ph) == {NoDate} \cup {[ph |-> ph, ver |-> v, future |-> f] : v \in {1, 2}, f \in BOOLEAN}

\* elections initAll() may find: not begun yet or in nomination, with or
\* without a primary
JobElections ==
    {[Blank EXCEPT !.phase = q, !.dates = v, !.primary = pr] :
        q \in {"none", "nomination"}, v \in {1, 2}, pr \in BOOLEAN}

AllFuture(c) == \A ph \in JobPhases : DateOf(c, ph) # NoDate /\ DateOf(c, ph).future

JobMach == [Constructed EXCEPT !.sched = sched, !.task = task, !.made = made]

JobDone(r, fn, ph, date) ==
    /\ sched' = r.sched /\ task' = r.task /\ made' = r.made
    /\ job' = [fn |-> fn, ph |-> ph, date |-> date, rv |-> r.rv, n |-> job.n + 1]
    /\ UNCHANGED <<rescraperVars, queueVars>>

CallInit ==
    /\ job.n < MaxJobCalls
    /\ \E ph \in JobPhases : \E date \in JobDates(ph) :
          JobDone(InitJob(JobMach, ph, date), "init", ph, date)

CallCancel ==
    /\ job.n < MaxJobCalls
    /\ \E ph \in JobPhases :
          JobDone([CancelJob(JobMach, ph) EXCEPT !.rv = "undefined"], "cancel", ph, NoDate)

CallInitAll ==
    /\ job.n < MaxJobCalls
    /\ \E c \in JobElections :
          JobDone(InitAll(JobMach, c), "initAll", "all",
                  [ph |-> "all", ver |-> c.dates, future |-> AllFuture(c)])

CallCancelAll ==
    /\ job.n < MaxJobCalls
    /\ JobDone([CancelAll(JobMach) EXCEPT !.rv = "undefined"], "cancelAll", "all", NoDate)

\* the rescraper constructed and not started, nothing scraped yet
RescraperAtRest ==
    /\ page = Blank /\ cur = Blank /\ prev = NoPrev
    /\ nEvents = 0
    /\ iv = IntervalDefault
    /\ said = FALSE
    /\ announced = FALSE
    /\ handle = NoTimer
    /\ timers = {}
    /\ nT = 0
    /\ ticks = [t \in TimerIds |-> "idle"]
    /\ res = "none"
    /\ term = 0
    /\ sent = [k \in Kinds |-> 0]
    /\ ret = NoCall
    /\ nCalls = 0
    /\ alive = TRUE
    /\ left = 0

AnnouncerAtRest ==
    /\ sched = Constructed.sched
    /\ task = Constructed.task
    /\ made = Constructed.made
    /\ job = NoJob

InitJobs == RescraperAtRest /\ AnnouncerAtRest /\ QueueAtRest

NextJobs ==
    \/ CallInit
    \/ CallCancel
    \/ CallInitAll
    \/ CallCancelAll

SpecJobs == InitJobs /\ [][NextJobs]_vars

\* ------------------------------------------------------- the diff alone
\* the snapshots a scrape may give: any nominees in a nomination, and any
\* winners in any phase
DiffIds == 1..MaxNominees
DiffPages ==
    { [Blank EXCEPT !.phase = "nomination", !.nom = nm, !.valid = TRUE] :
        nm \in [DiffIds -> {"absent", "active", "withdrawn"}] }
    \cup { [Blank EXCEPT !.phase = ph, !.winners = w, !.valid = TRUE,
                         !.nom = [n \in DiffIds |-> "absent"]] :
             ph \in {"nomination", "primary", "election", "ended", "cancelled"},
             w \in SUBSET {1, 2} }

\* the page becomes any other page
PageTurns ==
    /\ nEvents < MaxEvents
    /\ page' \in DiffPages \ {page}
    /\ nEvents' = nEvents + 1
    /\ res' = "none" /\ ret' = NoCall
    /\ UNCHANGED <<cur, prev, iv, said, announced, sched, task, handle, timers, nT,
                   ticks, term, sent, nCalls, alive, left, made, job, queueVars>>

\* election.scrapeElection(config) is called and resolves
Scrapes ==
    /\ \E ok \in BOOLEAN :
          LET e == ScrapeElection([cur |-> cur, prev |-> prev], page, ok, TRUE)
          IN  /\ cur' = e.cur
              /\ prev' = e.prev
              /\ res' = ScrapeOutcome(e.cur, e.prev, e.rescraped)
    /\ ret' = NoCall
    /\ UNCHANGED <<page, nEvents, iv, said, announced, sched, task, handle, timers, nT,
                   ticks, term, sent, nCalls, alive, left, made, job, queueVars>>

InitDiff ==
    /\ page \in DiffPages /\ cur = Blank /\ prev = NoPrev
    /\ nEvents = 0
    /\ iv = IntervalDefault
    /\ said = FALSE
    /\ announced = FALSE
    /\ handle = NoTimer
    /\ timers = {}
    /\ nT = 0
    /\ ticks = [t \in TimerIds |-> "idle"]
    /\ res = "none"
    /\ term = 0
    /\ sent = [k \in Kinds |-> 0]
    /\ ret = NoCall
    /\ nCalls = 0
    /\ alive = TRUE
    /\ left = 0
    /\ AnnouncerAtRest /\ QueueAtRest

NextDiff ==
    \/ PageTurns
    \/ Scrapes

SpecDiff == InitDiff /\ [][NextDiff]_vars

\* --------------------------------------------- start() and stop() called
\* what was called is kept in ret.fn
Called(fn) == [NoCall EXCEPT !.fn = fn]

\* rescraper.start() is called (at startup, by a command)
CallStart ==
    /\ alive /\ nCalls < MaxStopCalls
    /\ ApplyExt([Start(MachExt) EXCEPT !.ret = Called("start")])
    /\ nCalls' = nCalls + 1
    /\ res' = "none"
    /\ UNCHANGED <<page, nEvents, cur, prev>>

\* rescraper.stop() is called
CallStop ==
    /\ alive /\ nCalls < MaxStopCalls
    /\ ApplyExt([Stop(MachExt) EXCEPT !.ret = Called("stop")])
    /\ nCalls' = nCalls + 1
    /\ res' = "none"
    /\ UNCHANGED <<page, nEvents, cur, prev>>

\* the rescraper constructed and not started, the election scraped once; the
\* page stays as it is (no winners, the same room)
InitStop ==
    /\ page \in InitPages /\ cur = page /\ prev = NoPrev
    /\ nEvents = 0
    /\ iv = IntervalDefault
    /\ said = FALSE
    /\ announced = FALSE
    /\ sched = Startup(cur).sched
    /\ task = Startup(cur).task
    /\ made = Startup(cur).made
    /\ job = NoJob
    /\ QueueAtRest
    /\ handle = NoTimer
    /\ timers = {}
    /\ nT = 0
    /\ ticks = [t \in TimerIds |-> "idle"]
    /\ res = "none"
    /\ term = 0
    /\ sent = [k \in Kinds |-> 0]
    /\ ret = NoCall
    /\ nCalls = 0
    /\ alive = TRUE
    /\ left = 0

NextStop ==
    \/ CallStart
    \/ CallStop
    \/ \E t \in TimerIds : TimerFires(t)
    \/ \E t \in TimerIds : GetMeResolves(t)
    \/ \E t \in TimerIds : ScrapeResolves(t)
    \/ \E t \in TimerIds : SendResolves(t)
    \/ \E t \in TimerIds : ScaleResolves(t)
    \/ \E t \in TimerIds : AwaitRejects(t)

SpecStop == InitStop /\ [][NextStop]_vars

\* ------------------------------------------------------------ commands
\* where the date given to timetravel falls among the dates of the election:
\* before the nomination, in one of the phases, or nowhere (not a date)
Destinations(c) ==
    {"invalid", "before", "nomination", "election", "ended"}
    \cup (IF c.primary THEN {"primary"} ELSE {})

\* election.getPhase(date): the phase the dates give for that date, none
\* when the election has no dates or the date is before the nomination
GetPhase(c, d) == IF c.dates = 0 \/ d = "before" THEN "none" ELSE d

\* timetravelCommand(config, election, content): e is the election (cur,
\* prev) with the two flags
TimetravelKeepsFlags(e, d) ==
    IF d = "invalid" THEN [e EXCEPT !.error = TRUE]
    ELSE [e EXCEPT !.cur.phase = GetPhase(e.cur, d), !.error = FALSE]

TimetravelCommand(e, d) ==
    IF d = "invalid" THEN [e EXCEPT !.error = TRUE]
    ELSE [e EXCEPT !.cur.phase = GetPhase(e.cur, d), !.error = FALSE,
                   !.announced = FALSE, !.said = FALSE]

\* resetElection(config, election): the election forgets its history and its
\* state
ResetKeepsPhase(e) ==
    [e EXCEPT !.cur = [Blank EXCEPT !.phase = e.cur.phase], !.prev = NoPrev,
              !.error = FALSE]

ResetKeepsHistory(e) == [e EXCEPT !.cur = Blank, !.error = FALSE]

ResetElection(e) == [e EXCEPT !.cur = Blank, !.prev = NoPrev, !.error = FALSE]

Commanded == [cur |-> cur, prev |-> prev, said |-> said, announced |-> announced,
              error |-> FALSE]

\* of a command ret keeps: phase, the destination; present, that both flags
\* were set when it was called; acted, that it reported no error
CommandDone(e, fn, d) ==
    /\ cur' = e.cur /\ prev' = e.prev /\ said' = e.said /\ announced' = e.announced
    /\ ret' = [Called(fn) EXCEPT !.phase = d, !.present = said /\ announced,
                                 !.acted = ~e.error]
    /\ nCalls' = nCalls + 1
    /\ res' = "none"
    /\ UNCHANGED <<page, nEvents, iv, sched, task, handle, timers, nT, ticks, term,
                   sent, alive, left, made, job, queueVars>>

\* a dev sends the timetravel command
Timetravel ==
    /\ alive /\ nCalls < MaxCalls
    /\ \E d \in Destinations(cur) : CommandDone(TimetravelCommand(Commanded, d), "timetravel", d)

\* a dev sends the reset command
Reset ==
    /\ alive /\ nCalls < MaxCalls
    /\ CommandDone(ResetElection(Commanded), "reset", "none")

\* the election scraped at startup and the rescraper started; the flags as
\* the configuration was given them
InitCommands ==
    /\ page \in InitPages /\ cur = page /\ prev = NoPrev
    /\ nEvents = 0
    /\ iv = IntervalDefault
    /\ said \in BOOLEAN
    /\ announced = said
    /\ sched = Startup(cur).sched
    /\ task = Startup(cur).task
    /\ made = Startup(cur).made
    /\ job = NoJob
    /\ QueueAtRest
    /\ handle = 1
    /\ timers = {1}
    /\ nT = 1
    /\ ticks = [t \in TimerIds |-> "idle"]
    /\ res = "none"
    /\ term = 0
    /\ sent = [k \in Kinds |-> 0]
    /\ ret = NoCall
    /\ nCalls = 0
    /\ alive = TRUE
    /\ left = 0

\* the commands and the scrapes of a page that changes
NextCommands ==
    \/ Timetravel
    \/ Reset
    \/ PageChanges
    \/ Scrapes

SpecCommands == InitCommands /\ [][NextCommands]_vars

\* the reset command between the ticks, the page staying as it is
NextReset ==
    \/ Reset
    \/ \E t \in TimerIds : TimerFires(t)
    \/ \E t \in TimerIds : GetMeResolves(t)
    \/ \E t \in TimerIds : ScrapeResolves(t)
    \/ \E t \in TimerIds : SendResolves(t)
    \/ \E t \in TimerIds : ScaleResolves(t)
    \/ \E t \in TimerIds : AwaitRejects(t)

SpecReset == InitCommands /\ [][NextReset]_vars

\* ------------------------------------------------------ the queue at work
SendTexts ==
    {NoText, Sp, First, First \o Sp \o Fifth, First \o Sp \o Third \o Sp \o Fifth,
     First \o Sp \o Second \o Sp \o Third \o Sp \o Fourth \o Sp \o Fifth}

\* seconds between the end of a delivery and the next request
Gaps == {29, 30, 300}

NewCall == [Idle EXCEPT !.calls = msg.calls + 1]

\* the bot is asked to send one message (a reply to a mention)
AskSendMessage ==
    /\ msg.pc = "idle" /\ msg.calls < MaxSendCalls
    /\ \E text \in {x \in SendTexts : ~Refuses(x)}, gap \in Gaps :
          /\ now' = now + gap
          /\ msg' = SendMessage(NewCall, bk, text, now + gap)
    /\ UNCHANGED <<rescraperVars, sched, task, made, job, bk>>

\* sendMultipartMessage(config, room, text, {isPrivileged}) is called
AskSendMultipart ==
    /\ msg.pc = "idle" /\ msg.calls < MaxSendCalls
    /\ \E text \in SendTexts, priv \in BOOLEAN, gap \in Gaps :
          /\ now' = now + gap
          /\ msg' = SendMultipartMessage(NewCall, text, TestMaxLength, priv)
    /\ UNCHANGED <<rescraperVars, sched, task, made, job, bk>>

\* room.sendMessage resolves
RoomSendResolves ==
    /\ msg.pc \in {"sending", "sendingPoem"}
    /\ LET m == [msg EXCEPT !.sends = Append(@, msg.cand)]
       IN  IF msg.fn = "single"
           THEN /\ msg' = [m EXCEPT !.pc = "idle", !.result = "true"]
                /\ bk' = UpdateLastMessage(bk, msg.cand, now)
           ELSE IF msg.pc = "sendingPoem"
           THEN /\ msg' = [m EXCEPT !.pc = "idle", !.result = "false"]
                /\ bk' = bk
           ELSE /\ msg' = [m EXCEPT !.pc = "wait"]
                /\ bk' = bk
    /\ UNCHANGED <<rescraperVars, sched, task, made, job, now>>

\* room.sendMessage rejects
RoomSendRejects ==
    /\ msg.pc \in {"sending", "sendingPoem"}
    /\ msg' = AfterReject(msg)
    /\ UNCHANGED <<rescraperVars, sched, task, made, job, bk, now>>

\* the delay after a part is over
ThrottleElapses ==
    /\ msg.pc = "wait"
    /\ now' = now + Throttle
    /\ msg' = AfterThrottle(msg, bk, now + Throttle).m
    /\ bk' = AfterThrottle(msg, bk, now + Throttle).b
    /\ UNCHANGED <<rescraperVars, sched, task, made, job>>

InitQueue == RescraperAtRest /\ AnnouncerAtRest /\ QueueAtRest

NextQueue ==
    \/ AskSendMessage
    \/ AskSendMultipart
    \/ RoomSendResolves
    \/ RoomSendRejects
    \/ ThrottleElapses

SpecQueue == InitQueue /\ [][NextQueue]_vars

\* ------------------------------------------------------ mute and unmute
\* config.isMuted, and the guard of the message handler before it answers
IsMuted(b, t) == t < b.lastMessageTime + b.throttleSecs

\* "mute": the last message time is dated num minutes ahead, less the throttle
MuteCommand(b, num, throttle, t) ==
    [UpdateLastMessageTime(b, t + num * 60 - throttle) EXCEPT !.mutedUntil = t + num * 60]

\* "unmute"
UnmuteCommand(b) == [UpdateLastMessageTime(b, -1) EXCEPT !.mutedUntil = 0]

\* the minutes given to the mute command (5 when none is given)
MuteMinutes == {1, 5}
Passages == {1, 60, 240}

MuteStep(fn, acted) ==
    /\ nCalls' = nCalls + 1
    /\ ret' = [Called(fn) EXCEPT !.acted = acted]
    /\ res' = "none"
    /\ UNCHANGED <<page, nEvents, cur, prev, iv, announced, sched, task, handle, timers,
                   nT, ticks, term, sent, alive, left, made, job>>

\* a privileged user gives the mute command
Mutes ==
    /\ nCalls < MaxMuteSteps
    /\ \E num \in MuteMinutes : bk' = MuteCommand(bk, num, bk.throttleSecs, now)
    /\ MuteStep("mute", TRUE)
    /\ UNCHANGED <<said, msg, now>>

\* a privileged user gives the unmute command
Unmutes ==
    /\ nCalls < MaxMuteSteps
    /\ bk' = UnmuteCommand(bk)
    /\ MuteStep("unmute", TRUE)
    /\ UNCHANGED <<said, msg, now>>

\* a user mentions the bot with a message that is no command: it is dropped
\* by the throttle guard, or the answer is handed to the room
MessageArrives ==
    /\ nCalls < MaxMuteSteps /\ msg.pc = "idle" /\ msg.calls < MaxSendCalls
    /\ msg' = IF IsMuted(bk, now) THEN msg ELSE SendMessage(NewCall, bk, First, now)
    /\ MuteStep("message", ~IsMuted(bk, now))
    /\ UNCHANGED <<said, bk, now>>

\* the rescraper has announced that the election is ending soon: the flag is
\* set and the time of the last message recorded
EndingSoonAnnounced ==
    /\ nCalls < MaxMuteSteps /\ ~said
    /\ said' = TRUE
    /\ bk' = UpdateLastMessageTime(bk, now)
    /\ MuteStep("endingSoon", TRUE)
    /\ UNCHANGED <<msg, now>>

TimePasses ==
    /\ nCalls < MaxMuteSteps
    /\ \E d \in Passages : now' = now + d
    /\ MuteStep("none", FALSE)
    /\ UNCHANGED <<said, msg, bk>>

\* the configuration as constructed, some time after the epoch, with the
\* throttle of the environment
InitMute ==
    /\ RescraperAtRest /\ AnnouncerAtRest
    /\ msg = Idle
    /\ now = 1000
    /\ \E th \in {Throttle, 10} :
          bk = [lastMessageTime |-> 0, lastActivityTime |-> 1000, lastBotMessage |-> NoText,
                throttleSecs |-> th, mutedUntil |-> 0]

NextMute ==
    \/ Mutes
    \/ Unmutes
    \/ MessageArrives
    \/ EndingSoonAnnounced
    \/ TimePasses
    \/ RoomSendResolves
    \/ RoomSendRejects

SpecMute == InitMute /\ [][NextMute]_vars

\* ------------------------------------------------------- the user groups
UserIds == 1..MaxUsers

\* BotConfig.addAdmin(chatUserId)
AddAdmin(b, id) == [b EXCEPT !.adminIds = @ \cup {id}]

\* BotConfig.addIgnoredUser(chatUserId)
AddIgnoredUser(b, id) == [b EXCEPT !.adminIds = @ \cup {id}]

\* the access of a user: administrator when listed in adminIds
IsAdmin(b, id) == id \in b.adminIds

UserCall(fn, id) ==
    /\ ret' = [Called(fn) EXCEPT !.by = id]
    /\ res' = "none"
    /\ UNCHANGED <<page, nEvents, cur, prev, iv, said, announced, sched, task, handle,
                   timers, nT, ticks, term, sent, nCalls, alive, left, made, job, msg, now>>

CallAddAdmin ==
    \E id \in UserIds :
        /\ bk' = AddAdmin(bk, id)
        /\ UserCall("addAdmin", id)

CallAddIgnoredUser ==
    \E id \in UserIds :
        /\ bk' = AddIgnoredUser(bk, id)
        /\ UserCall("addIgnoredUser", id)

\* the three groups as read from the environment
InitUsers ==
    /\ RescraperAtRest /\ AnnouncerAtRest
    /\ msg = Idle /\ now = 0
    /\ \E d \in SUBSET UserIds, a \in SUBSET UserIds, i \in SUBSET UserIds :
          bk = [lastMessageTime |-> 0, lastActivityTime |-> 0, lastBotMessage |-> NoText,
                devIds |-> d, adminIds |-> a, ignoredUserIds |-> i]

NextUsers ==
    \/ CallAddAdmin
    \/ CallAddIgnoredUser

SpecUsers == InitUsers /\ [][NextUsers]_vars

\* ---------------------------------------------------- the splitting alone
AllTexts == UNION {[1..n -> Chars] : n \in 0..MaxTextLen}
SplitInputs ==
    {[text |-> t, max |-> m] : t \in AllTexts, m \in {1, 2}}
    \cup {[text |-> First \o <<Newline>> \o Fifth, max |-> TestMaxLength],
          [text |-> First \o <<" ">> \o Fifth, max |-> TestMaxLength]}

InitSplit ==
    /\ RescraperAtRest /\ AnnouncerAtRest
    /\ \E in \in SplitInputs : msg = [Idle EXCEPT !.pc = "given", !.text = in.text, !.max = in.max]
    /\ bk = Bookkeeping0 /\ now = 0

Splits ==
    /\ msg.pc = "given"
    /\ msg' = [msg EXCEPT !.pc = "split", !.parts = SplitText(msg.text, msg.max),
                      !.n = Len(SplitText(msg.text, msg.max))]
    /\ UNCHANGED <<rescraperVars, sched, task, made, job, bk, now>>

SpecSplit == InitSplit /\ [][Splits]_vars

\* ------------------------------------------------------------- properties
\* a rescrape() execution that has begun and has reached neither its final
\* start() nor its catch block nor the end of the process
RunningPcs == AwaitPcs \cup {"afterparty"}
Running == {t \in TimerIds : ticks[t] \in RunningPcs}
Finished == {t \in TimerIds : ticks[t] = "done"}

\* C1: after any sequence of start(), stop() and ticks, at most one rescrape
\* timer is pending in the event loop
C1_AtMostOneTimer == Cardinality(timers) <= 1

\* C2: no two rescrape() executions are in progress at the same time
C2_NoOverlap == Cardinality(Running) <= 1

\* the step in which the scrapeElection awaited by tick t resolved
ScrapeStepOf(t) == ticks[t] = "scrape" /\ ticks'[t] # "scrape"

\* C3: a tick whose scrape failed or left an invalid state re-arms the timer
\* and does nothing else: no announcement, no job touched, interval and
\* saidElectionEndingSoon as they were
C3_RejectedScrapeOnlyRearms ==
    [][\A t \in TimerIds :
          (ScrapeStepOf(t) /\ res' \in {"failed", "invalid"})
          => /\ ticks'[t] = "done"
             /\ nT' = nT + 1
             /\ handle' = nT'
             /\ timers' = timers \cup {nT'}
             /\ sent' = sent /\ sched' = sched /\ task' = task
             /\ iv' = iv /\ said' = said]_vars

C3_Witness ==
    /\ res = "invalid"
    /\ prev # NoPrev
    /\ \E t \in TimerIds : ticks[t] = "done" /\ handle = t + 1 /\ handle \in timers

\* C4: a scrapeElection that returns failure leaves the current snapshot and
\* prev exactly as they were
C4_FailedScrapeKeepsSnapshots ==
    [][\A t \in TimerIds :
          (ScrapeStepOf(t) /\ res' = "failed") => (cur' = cur /\ prev' = prev)]_vars

C4_Witness ==
    /\ res = "failed"
    /\ cur # Blank
    /\ prev # cur
    /\ cur # page

\* C5: after a tick in which an awaited call rejected, a next tick is armed
\* (or has already begun)
C5_RearmedAfterException ==
    \A t \in TimerIds :
        ticks[t] = "caught"
        => (timers # {} \/ \E u \in TimerIds : u > t /\ ticks[u] # "idle")

\* C6: when the tick that posted the cancellation or the winners is over, no
\* rescrape timer is pending and no phase job is running
C6_TerminalTickQuiesces ==
    \A t \in TimerIds :
        (term = t /\ ticks[t] = "done")
        => (timers = {} /\ \A ph \in JobPhases : task[ph] # "running")

\* C7: announceCancelled goes on to post exactly when the election is present
\* and cancelled with a cancellation text
C7_CancelledPostsIffCancelled ==
    ret.fn = "cancelled"
    => (ret.acted <=> (ret.present /\ ret.phase = "cancelled" /\ ret.text))

\* C8: announceWinners refuses, changing nothing, when the election is absent,
\* not ended or without winners; otherwise it has cancelled every job and
\* stopped the rescraper when it hands the one winners message to the room
C8_WinnersRefusesOrQuiesces ==
    [][ret'.fn = "winners"
       => /\ ret'.acted <=> (ret'.present /\ ret'.phase = "ended" /\ ret'.winners > 0)
          /\ ret'.acted
             => /\ ret'.clean
                /\ handle' = NoTimer
                /\ handle \notin timers'
                /\ \A ph \in JobPhases : task'[ph] # "running" /\ sched'[ph] = NoSched
                /\ sent' = [sent EXCEPT !["winners"] = @ + 1]
          /\ ~ret'.acted
             => /\ sent' = sent /\ sched' = sched /\ task' = task
                /\ handle' = handle /\ timers' = timers]_vars

C8_Witness ==
    /\ ret.fn = "winners" /\ ret.by = 0 /\ ret.present
    /\ ret.acted /\ ret.clean
    /\ sent["winners"] = 1
    /\ handle = NoTimer
    /\ \E t \in 1..nT : ticks[t] = "idle" /\ t \notin timers

\* C9: the ending-soon announcement is sent at most once; the flag is set
\* when the branch is entered, before its first await, only when it was not
\* set, and no tick clears it
C9_EndingSoonOnce ==
    /\ [](/\ sent["endingSoon"] <= 1
          /\ sent["endingSoon"] > 0 => said
          /\ \A t \in TimerIds : ticks[t] \in {"scaleHobby", "endingSoon"} => said)
    /\ [][said => said']_vars
    /\ [][\A t \in TimerIds :
             (ticks[t] # "scaleHobby" /\ ticks'[t] = "scaleHobby")
             => (~said /\ said' /\ sent' = sent)]_vars

C9_Witness ==
    /\ sent["endingSoon"] = 1
    /\ said
    /\ cur.phase = "election"
    /\ Cardinality(Finished) >= 2

\* C10: over any sequence of ticks the winners are announced at most once
C10_WinnersAnnouncedOnce == sent["winners"] <= 1

\* the step is a call of init<Phase>
InitCalled == job'.n = job.n + 1 /\ job'.fn = "init"

\* C11: a second init<Phase> with the same future date returns false and
\* leaves the job and the schedule of the first as they are; when the first
\* armed the job, that one job is the only one made
C11_SecondInitRefused ==
    [][(InitCalled /\ job.fn = "init" /\ job'.ph = job.ph /\ job'.date = job.date
        /\ job.date # NoDate /\ job.date.future)
       => /\ job'.rv = "false"
          /\ task' = task /\ sched' = sched /\ made' = made
          /\ job.rv = "undefined" => task'[job.ph] = "running"]_vars

C11_Witness ==
    /\ job.fn = "init" /\ job.n = 2 /\ job.rv = "false"
    /\ job.date # NoDate /\ job.date.future
    /\ made[job.ph] = 1
    /\ task[job.ph] = "running"
    /\ sched[job.ph] = CronExpr(job.date)

\* C12: init<Phase> with an absent date or a date not later than now returns
\* false, arms no job and records no schedule
C12_InitWithoutFutureDate ==
    [][(InitCalled /\ (job'.date = NoDate \/ ~job'.date.future))
       => /\ job'.rv = "false"
          /\ task' = task /\ sched' = sched /\ made' = made]_vars

\* C13: init<Phase> with a future date right after cancel<Phase> arms a new
\* job, and initAll right after cancelAll, all four dates in the future,
\* leaves four running jobs with the schedules of these dates
C13_CancelEnablesInit ==
    [][/\ (InitCalled /\ job.fn = "cancel" /\ job'.ph = job.ph
            /\ job'.date # NoDate /\ job'.date.future)
           => /\ task'[job'.ph] = "running"
              /\ sched'[job'.ph] = CronExpr(job'.date)
              /\ made'[job'.ph] = made[job'.ph] + 1
       /\ (job'.n = job.n + 1 /\ job'.fn = "initAll" /\ job.fn = "cancelAll"
            /\ job'.date.future)
           => \A ph \in JobPhases :
                 /\ task'[ph] = "running"
                 /\ sched'[ph] = <<0, job'.date.ver, ph>>]_vars

\* the step is a call of sendMultipartMessage / a request for one message
MultipartCalled == msg'.calls = msg.calls + 1 /\ msg'.fn = "multi"
MessageAsked == msg'.calls = msg.calls + 1 /\ msg'.fn = "single"
Delivered == Len(msg'.sends) = Len(msg.sends) + 1

C15_TooManyPartsApology ==
    (msg.fn = "multi" /\ ~msg.priv /\ Len(SplitText(msg.text, TestMaxLength)) > MaxMessageParts)
    => /\ \A i \in 1..Len(msg.sends) : msg.sends[i] = Poem(Len(SplitText(msg.text, TestMaxLength)))
       /\ Len(msg.sends) <= 1
       /\ msg.pc \in {"sendingPoem", "idle"}
       /\ msg.pc = "idle" => (msg.result = "false" /\ (~msg.rejected => Len(msg.sends) = 1))

C15_Witness ==
    /\ msg.fn = "multi" /\ ~msg.priv /\ msg.pc = "idle"
    /\ msg.text = First \o Sp \o Second \o Sp \o Third \o Sp \o Fourth \o Sp \o Fifth
    /\ msg.sends = <<Poem(5)>>
    /\ msg.result = "false"

\* C16: a delivery within the limit sends the parts in their order, one at
\* a time, and N parts take N - 1 throttle delays
C16_InOrderWithDelaysBetween ==
    (/\ msg.fn = "multi" /\ msg.pc \in {"sending", "wait", "idle"} /\ ~msg.rejected
     /\ msg.n \in 1..MaxMessageParts)
    => /\ msg.sends \o (IF msg.pc = "sending" THEN <<msg.cand>> ELSE <<>>) \o msg.parts
          = SplitText(msg.text, TestMaxLength)
       /\ msg.pc = "sending" => msg.waits = Len(msg.sends)
       /\ msg.result = "true" => msg.waits = msg.n - 1

\* C17: the call returns true only when every part was sent; a rejected send
\* makes it return false, and the rejected part is not sent again
C17_TrueOnlyIfAllSent ==
    msg.fn = "multi"
    => /\ msg.result = "true"
          => (~msg.rejected /\ msg.sends = SplitText(msg.text, TestMaxLength))
       /\ msg.rejected
          => /\ msg.result = "false" /\ msg.pc = "idle"
             /\ Len(msg.sends) < Len(SplitText(msg.text, TestMaxLength))
             /\ \A i \in 1..Len(msg.sends) : msg.sends[i] # msg.cand \/ msg.cand = Poem(msg.n)

C17_Witness ==
    /\ msg.fn = "multi" /\ msg.rejected /\ msg.result = "false"
    /\ msg.text = First \o Sp \o Fifth
    /\ msg.sends = <<First>> /\ msg.cand = Fifth

\* the characters of the parts, in order, separators left out
RECURSIVE Flat(_)
Flat(parts) == IF parts = <<>> THEN <<>> ELSE Head(parts) \o Flat(Tail(parts))
Letters(s) == SelectSeq(s, LAMBDA c : c \notin Seps \cup {Newline})

\* C18: no part is longer than maxMessageLength or holds a newline; the
\* letters of the text are all sent, in order; a text without newlines that
\* has a separator within the limit is cut there and not inside a word; and
\* with maxMessageLength = 6 both "first\nfifth" and "first fifth" give
\* exactly "first" then "fifth"
C18_SplitWithinLimit ==
    msg.pc = "split"
    => /\ \A i \in 1..Len(msg.parts) :
              /\ Len(msg.parts[i]) \in 1..msg.max
              /\ ~HasNewline(msg.parts[i])
       /\ Letters(Flat(msg.parts)) = Letters(msg.text)
       /\ msg.n = Len(msg.parts)
       /\ (~HasNewline(msg.text) /\ Len(msg.text) > msg.max /\ msg.text[1] \notin Seps
            /\ \E i \in 2..(msg.max + 1) : msg.text[i] \in Seps)
           => \E i \in 2..(msg.max + 1) :
                 /\ msg.text[i] \in Seps
                 /\ msg.parts[1] = SubSeq(msg.text, 1, i - 1)
                 /\ \A j \in (i + 1)..(msg.max + 1) : msg.text[j] \notin Seps
       /\ (msg.max = TestMaxLength /\ msg.text \in {First \o <<Newline>> \o Fifth, First \o <<" ">> \o Fifth})
           => msg.parts = <<First, Fifth>>

C18_Witness ==
    /\ msg.pc = "split"
    /\ msg.text = First \o <<" ">> \o Fifth
    /\ msg.parts = <<First, Fifth>>

\* C19: a text equal to the last message sent goes out as the duplicate
\* notice when that message was sent less than 30 seconds ago, and as it is
\* when 30 seconds or more have passed
C19_ThirtySecondCooldown ==
    [][(MessageAsked /\ msg'.text = bk.lastBotMessage)
       => /\ now' - bk.lastMessageTime < 30 => msg'.cand = DuplicateResponseText
          /\ now' - bk.lastMessageTime >= 30 => msg'.cand = msg'.text]_vars

\* C20: each delivery the room accepted leaves lastMessageTime and
\* lastActivityTime at the time of the send and lastBotMessage at the content
\* sent; a refused or rejected one leaves the three as they were
C20_BookkeepingFollowsDelivery ==
    [][/\ Delivered
          => /\ bk'.lastMessageTime = now'
             /\ bk'.lastActivityTime = now'
             /\ bk'.lastBotMessage = msg.cand
       /\ (msg'.rejected /\ ~msg.rejected) => bk' = bk
       /\ (MultipartCalled /\ msg'.pc = "idle") => bk' = bk]_vars

\* C21: stop() called when no timer is armed, or right after another stop(),
\* leaves the stored handle empty and no timer pending
C21_StopIdempotent ==
    [][(ret'.fn = "stop" /\ (timers = {} \/ ret.fn = "stop"))
       => (handle' = NoTimer /\ timers' = {})]_vars

\* C22: a tick whose scrape succeeded and validated while election.prev is
\* absent re-arms the timer and returns: no announcement, no greeting, the
\* interval, the flag and the jobs as they were
C22_NoPrevOnlyRearms ==
    [][\A t \in TimerIds :
          (ScrapeStepOf(t) /\ res' = "noprev")
          => /\ ticks'[t] = "done"
             /\ nT' = nT + 1
             /\ handle' = nT'
             /\ timers' = timers \cup {nT'}
             /\ sent' = sent /\ sched' = sched /\ task' = task
             /\ iv' = iv /\ said' = said]_vars

C22_Witness ==
    /\ res = "noprev"
    /\ cur.phase = "nomination" /\ cur.nom[1] = "active"
    /\ \E t \in TimerIds : ticks[t] = "done" /\ handle = t + 1 /\ handle \in timers

\* the tick is at, or past, the restart that follows a change of chat room
RestartPcs == {"restart", "restarted", "exited"}

\* C23: a tick that finds the election chat room changed calls the restart
\* and nothing else; a restart that reports failure ends the process; the
\* tick posts nothing and arms no timer
C23_RoomChangeRestarts ==
    /\ [][\A t \in TimerIds :
             /\ (ScrapeStepOf(t) /\ res' = "ok" /\ cur'.room # prev'.room)
                => /\ ticks'[t] = "restart"
                   /\ sent' = sent /\ nT' = nT /\ timers' = timers
             /\ (ticks[t] = "restart" /\ ticks'[t] # "restart")
                => /\ ticks'[t] \in {"restarted", "exited", "caught"}
                   /\ ticks'[t] = "exited" => ~alive'
                   /\ sent' = sent /\ nT' = nT /\ timers' = timers]_vars
    /\ [](\A t \in TimerIds : ticks[t] \in RestartPcs => (nT = t /\ timers = {}))

C23_Witness ==
    /\ \E t \in TimerIds : ticks[t] = "exited" /\ nT = t
    /\ ~alive
    /\ cur.room # prev.room
    /\ timers = {}

\* a scrape has succeeded and the snapshots are the ones it left
Scraped == res \in {"ok", "noprev"}

\* C24: newNominees holds only nominees of the current snapshot that are not
\* withdrawn in it and were not in prev as not withdrawn
C24_NewNomineesActiveAndNew ==
    Scraped
    => \A n \in NewNominees(cur, prev) :
          /\ n \in DOMAIN cur.nom /\ cur.nom[n] # "absent"
          /\ cur.nom[n] # "withdrawn"
          /\ prev = NoPrev \/ prev.nom[n] # "active"

C24_Witness ==
    /\ res = "ok"
    /\ cur.nom[1] = "withdrawn" /\ prev.nom[1] = "absent"
    /\ cur.nom[2] = "active" /\ prev.nom[2] = "withdrawn"
    /\ NewNominees(cur, prev) = {2}

\* C25: hasNewWinners is true exactly when there are winners now and prev is
\* absent or its set of winners is another one
C25_NewWinnersIff ==
    Scraped
    => (HasNewWinners(cur, prev)
        <=> (cur.winners # {} /\ (prev = NoPrev \/ cur.winners # prev.winners)))

\* C26: after a successful scrape isNewPhase() is true when the scrape shows
\* another phase than the scrape before it, contiguous or not, and false when
\* it shows the same phase again
C26_NewPhaseOnce ==
    [][(cur # Blank /\ res' \in {"ok", "noprev"})
       => (IsNewPhase(cur', prev') <=> page.phase # cur.phase)]_vars

C26_Witness ==
    /\ res = "ok"
    /\ prev.phase = "nomination" /\ cur.phase = "ended"
    /\ IsNewPhase(cur, prev)
    /\ page = cur

\* b is a, or a phase after a; nothing comes after ended and cancelled
Forward(a, b) == a = b \/ (PhaseRank(a) < 4 /\ PhaseRank(b) > PhaseRank(a))

\* C27: the phase of the election only moves forward, and once ended or
\* cancelled no scrape, timetravel or reset changes it
C27_PhaseOnlyForward == [][Forward(cur.phase, cur'.phase)]_vars

\* C27 as amended: a scrape that succeeds gives the election the phase of the
\* page and one that fails leaves it, so while no command was given the phase
\* only moves forward; timetravel sets the phase the dates give for its date
\* and reset sets it to null, from any phase
C27_PhaseFollowsPageOrCommand ==
    [][/\ ret'.fn = "timetravel"
          => cur'.phase = (IF ret'.acted THEN GetPhase(cur, ret'.phase) ELSE cur.phase)
       /\ ret'.fn = "reset" => cur'.phase = "none"
       /\ res' \in {"ok", "noprev"} => cur'.phase = page.phase
       /\ res' = "failed" => cur'.phase = cur.phase
       /\ (nCalls' = 0) => Forward(cur.phase, cur'.phase)]_vars

C27_Witness ==
    /\ ret.fn = "timetravel" /\ ret.phase = "nomination"
    /\ cur.phase = "nomination"
    /\ prev.phase = "ended"
    /\ page.phase = "ended"

\* C28: timetravel with a valid date sets the phase the dates give for that
\* date and clears announcedWinners and saidElectionEndingSoon; with an
\* invalid date it reports an error and changes neither phase nor flags
C28_TimetravelSetsPhaseAndFlags ==
    [][ret'.fn = "timetravel"
       => /\ ret'.phase # "invalid"
             => /\ ret'.acted
                /\ cur'.phase = GetPhase(cur, ret'.phase)
                /\ ~announced' /\ ~said'
          /\ ret'.phase = "invalid"
             => /\ ~ret'.acted
                /\ cur' = cur /\ announced' = announced /\ said' = said]_vars

C28_Witness ==
    /\ ret.fn = "timetravel" /\ ret.phase = "ended" /\ ret.acted
    /\ ret.present
    /\ cur.phase = "ended" /\ page.phase = "nomination"
    /\ ~announced /\ ~said

StageOf(pc) ==
    CASE pc \in {"idle", "getMe", "scrape"} -> 0
      [] pc \in RestartPcs -> 1
      [] pc = "withdrawn" -> 2
      [] pc = "primary" -> 3
      [] pc = "dates" -> 4
      [] pc \in {"cancelSend", "scaleFreeC"} -> 5
      [] pc = "winnersSend" -> 6
      [] pc \in {"done", "caught"} -> 8
      [] OTHER -> 7

\* C30: within a tick the side effects come in the order new nominees,
\* withdrawn nominees, primary, dates, cancellation, winners, interval chain,
\* and each is completed before the next condition is evaluated
C30_SideEffectsInOrder ==
    /\ [][\A t \in TimerIds : StageOf(ticks'[t]) >= StageOf(ticks[t])]_vars
    /\ [](\A t \in TimerIds :
             StageOf(ticks[t]) \in 2..7 => sent["nomineeSent"] = sent["nominee"])

\* the step in which a timer fired and rescrape() ran to its first await
TickBegan == ret'.fn = "rescrape"

\* C31: when a tick begins, before scrapeElection is called, a running
\* election start job is stopped if the election is extension eligible, and a
\* missing one is armed for dateElection (a date still to come) if it is not;
\* so no scrape is made with the job running and the election eligible
C31_StartJobFollowsEligibility ==
    [][TickBegan
       => /\ ret'.present => task'["election"] # "running"
          /\ (~ret'.present /\ DateOf(cur, "election").future)
             => task'["election"] = "running"]_vars

\* the primary date of a snapshot: it changes with the dates of the election
PrimaryDateChanged == page.dates # 1

\* C32: the primary addition is announced only by a step that finds no primary
\* schedule and a primary date in the snapshot, and at most once while the
\* primary date does not change
C32_PrimaryAnnouncedOnce ==
    /\ [][sent'["primary"] > sent["primary"]
          => (sched["primary"] = NoSched /\ cur'.primary)]_vars
    /\ [](PrimaryDateChanged \/ sent["primary"] <= 1)

\* the phases whose date in snapshot c is still to come
FuturePhases(c) == {ph \in JobPhases : DateOf(c, ph) # NoDate /\ DateOf(c, ph).future}

\* C33: the step of a tick that finds the dates changed sends the date change
\* announcement once and leaves running exactly the jobs of the phases whose
\* current date is still to come, each scheduled from the current date
C33_DatesChangeRearmsAll ==
    [][sent'["dates"] # sent["dates"]
       => /\ sent'["dates"] = sent["dates"] + 1
          /\ {ph \in JobPhases : task'[ph] = "running"} = FuturePhases(cur')
          /\ \A ph \in FuturePhases(cur') : sched'[ph] = CronExpr(DateOf(cur', ph))]_vars

\* a tick is over that scraped an ended election without winners, and the
\* page shows winners since
WaitingForResults ==
    /\ IsEnded(cur) /\ cur.winners = {} /\ Validate(cur)
    /\ page.winners # {}
    /\ \E t \in TimerIds : ticks[t] = "done"

\* the winners were handed to the room, or the scrape of a later tick failed,
\* an awaited call rejected, or the room changed and the app restarts
ResultsPostedOrScrapeFailed ==
    \/ sent["winners"] >= 1
    \/ res \in {"failed", "invalid"}
    \/ \E t \in TimerIds : ticks[t] \in {"caught"} \cup RestartPcs

\* C34: a tick that finds the election ended without winners sets the fast
\* poll interval, enters no ending-soon, greeting or leave branch and re-arms
\* the timer; and once the page shows winners, the next scrape that succeeds
\* is followed by the winners announcement
C34_FastPollUntilResults ==
    /\ [][\A t \in TimerIds :
             (/\ ticks[t] \in AwaitPcs \ {"getMe"}
              /\ ticks'[t] \notin {ticks[t], "caught"} \cup RestartPcs
              /\ res' \in {"ok", "none"}
              /\ IsEnded(cur') /\ cur'.winners = {})
             => /\ StageOf(ticks'[t]) # 7
                /\ left' = left
                /\ sent'["endingSoon"] = sent["endingSoon"]
                /\ ticks'[t] = "done"
                   => /\ iv' = IntervalNoResults
                      /\ handle' = nT + 1
                      /\ handle' \in timers']_vars
    /\ (WaitingForResults ~> ResultsPostedOrScrapeFailed)

C34_Witness ==
    /\ sent["winners"] = 1
    /\ iv = IntervalNoResults
    /\ prev.phase = "ended" /\ prev.winners = {}
    /\ cur.winners # {}
    /\ Cardinality(Finished) >= 1

\* C35: a tick enters the afterparty only for an inactive election with the
\* interval below the floor, and raises the interval to the floor; once
\* room.leave() was called no rescrape timer is pending any more, and
\* room.leave() is called at most once
C35_LeftRoomStaysDisarmed ==
    /\ [][\A t \in TimerIds :
             (ticks[t] # "afterparty" /\ ticks'[t] = "afterparty")
             => (IsInactive(cur') /\ iv < IntervalOver /\ iv' = IntervalOver)]_vars
    /\ [](left <= 1)
    /\ [](left >= 1 => timers = {})

\* C36: announceNewNominees hands the room one message per new nominee, and
\* all of them are sent when the tick goes on to a later side effect or ends
\* by re-arming the timer
C36_NomineesSentBeforeTheRest ==
    /\ [][sent'["nominee"] # sent["nominee"]
          => sent'["nominee"] = sent["nominee"] + Cardinality(NewNominees(cur', prev'))]_vars
    /\ [](\A t \in TimerIds :
             (StageOf(ticks[t]) \in 2..7 \/ ticks[t] = "done")
             => sent["nomineeSent"] = sent["nominee"])

\* C37: when the scrape of a phase job was the first to see a new nominee,
\* the first tick after it that can compare snapshots of the nomination with
\* the nominee still active announces the nominee
C37_JobScrapeLosesNothing ==
    [][\A t \in TimerIds :
          (/\ ScrapeStepOf(t) /\ res' = "ok"
           /\ job.rv = "nominee" /\ sent["nominee"] = 0
           /\ cur'.phase = "nomination" /\ cur'.room = prev'.room
           /\ \E n \in NomineeIds : cur'.nom[n] = "active")
          => sent'["nominee"] > 0]_vars

C39_MutedForNMinutes ==
    /\ [](now < bk.mutedUntil => IsMuted(bk, now))
    /\ [][(ret'.fn = "message" /\ ret'.acted) => now' >= bk.mutedUntil]_vars
    /\ [][ret'.fn = "unmute" => ~IsMuted(bk', now')]_vars
    /\ [][(ret.fn = "unmute" /\ ret'.fn = "message") => ret'.acted]_vars

\* C40: addIgnoredUser(id) adds id to ignoredUserIds and leaves adminIds and
\* devIds as they were, so that it makes nobody an administrator; addAdmin(id)
\* adds id to adminIds and leaves ignoredUserIds as it was
C40_GroupsKeptApart ==
    /\ [][ret'.fn = "addIgnoredUser"
          => /\ bk'.ignoredUserIds = bk.ignoredUserIds \cup {ret'.by}
             /\ bk'.adminIds = bk.adminIds
             /\ bk'.devIds = bk.devIds
             /\ IsAdmin(bk', ret'.by) => IsAdmin(bk, ret'.by)]_vars
    /\ [][ret'.fn = "addAdmin"
          => /\ bk'.adminIds = bk.adminIds \cup {ret'.by}
             /\ bk'.ignoredUserIds = bk.ignoredUserIds]_vars

====
